---- MODULE Spec2Model ----
(***************************************************************************)
(* Model of the open-shell Coulomb Hamiltonian engine (lib.py) and of the  *)
(* get_hamiltonian tool (server.py).                                       *)
(*                                                                         *)
(* Encodings.                                                              *)
(*  - A single-particle state (m_l, m_s) is the pair <<m_l, 2*m_s>>; the   *)
(*    spin projections Rational(1,2) and Rational(-1,2) are 1 and -1, and  *)
(*    the request's target_MS is carried as twice its value as well.       *)
(*  - An exact sympy scalar c * sqrt(r) (c an integer, r squarefree) is a  *)
(*    "surd"; a simplified symbolic expression sum c * sqrt(r) * f_k is a  *)
(*    function from <<k, r>> to the non-zero integer c (its normal form,   *)
(*    what simplify() reduces to; the empty function is 0).                *)
(***************************************************************************)
EXTENDS Integers, Sequences, FiniteSets, TLC

\* ------------------------------------------------------------------------
\* Bounds of the model
\* ------------------------------------------------------------------------
MaxN == 3          \* largest n_electrons requested
MaxML == 8         \* |target_ML| requested
MaxMS2 == 3        \* |2 * target_MS| requested
TermsMaxL == 1     \* largest shell l whose configurations are paired across sectors
MaxM == 3          \* |m| of the magnetic quantum numbers tried on the s shell

\* ------------------------------------------------------------------------
\* Exact arithmetic
\* ------------------------------------------------------------------------
Abs(x) == IF x < 0 THEN -x ELSE x

Sgn(x) == IF x < 0 THEN -1 ELSE IF x > 0 THEN 1 ELSE 0

MinusOnePow(x) == IF x % 2 = 0 THEN 1 ELSE -1

\* n!
Fact(n) == LET f[i \in 0 .. n] == IF i = 0 THEN 1 ELSE i * f[i - 1] IN IF n <= 0 THEN 1 ELSE f[n]

Choose(n, r) == IF r < 0 \/ r > n THEN 0 ELSE Fact(n) \div (Fact(r) * Fact(n - r))

\* b^e
Pow(b, e) == LET f[i \in 0 .. e] == IF i = 0 THEN 1 ELSE b * f[i - 1] IN IF e <= 0 THEN 1 ELSE f[e]

\* exponent of the prime p in the positive integer x
Vp(p, x) == LET f[y \in 1 .. x] == IF y % p = 0 THEN 1 + f[y \div p] ELSE 0 IN f[x]

\* exponent of the prime p in n! (n <= 13)
VpFact(p, n) == (n \div p) + (n \div (p * p)) + (n \div (p * p * p))

SumSeq(s) == LET f[i \in 0 .. Len(s)] == IF i = 0 THEN 0 ELSE f[i - 1] + s[i] IN f[Len(s)]

ProdSeq(s) == LET f[i \in 0 .. Len(s)] == IF i = 0 THEN 1 ELSE f[i - 1] * s[i] IN f[Len(s)]

PrimeSeq == <<2, 3, 5, 7, 11, 13>>

\* the product of f[p] over the primes
PrimeProd(f) == ProdSeq([i \in 1 .. Len(PrimeSeq) |-> f[PrimeSeq[i]]])

Primes == {PrimeSeq[i] : i \in 1 .. Len(PrimeSeq)}

RECURSIVE Gcd(_, _)
Gcd(a, b) == IF b = 0 THEN a ELSE Gcd(b, a % b)

\* ------------------------------------------------------------------------
\* Wigner 3j symbols and Gaunt coefficients (sympy.physics.wigner)
\*
\* A root is [sgn, num, exps, pi] and stands for
\*     sgn * num * sqrt(PROD p^exps[p]) * (4*pi)^(-pi/2).
\* ------------------------------------------------------------------------
ZeroRoot == [sgn |-> 0, num |-> 0, exps |-> [p \in Primes |-> 0], pi |-> 0]

\* the alternating sum of Racah's formula for the 3j symbol (l k l; m1 q m3),
\* put over the common denominator k!^2 (2l-k)!
RacahSum(l, k, m1, q, m3) ==
    LET term(t) == MinusOnePow(t) * Choose(k, t) * Choose(2 * l - k, l - t - m1) * Choose(k, k - t + q)
    IN SumSeq([i \in 1 .. k + 1 |-> term(i - 1)])

\* 3j symbol (l k l; m1 q m3), Racah's formula
wigner_3j(l, k, m1, q, m3) ==
    IF m1 + q + m3 # 0 \/ Abs(m1) > l \/ Abs(q) > k \/ Abs(m3) > l \/ k > 2 * l
    THEN ZeroRoot
    ELSE LET s == RacahSum(l, k, m1, q, m3)
         IN IF s = 0 THEN ZeroRoot
            ELSE [sgn |-> MinusOnePow(l - k - m3) * Sgn(s),
                  num |-> Abs(s),
                  exps |-> [p \in Primes |->
                              VpFact(p, l + m1) + VpFact(p, l - m1) + VpFact(p, k + q)
                              + VpFact(p, k - q) + VpFact(p, l + m3) + VpFact(p, l - m3)
                              - VpFact(p, 2 * l + k + 1) - 2 * VpFact(p, k) - VpFact(p, 2 * l - k)],
                  pi |-> 0]

RootMul(a, b) ==
    IF a.sgn = 0 \/ b.sgn = 0 THEN ZeroRoot
    ELSE [sgn |-> a.sgn * b.sgn, num |-> a.num * b.num,
          exps |-> [p \in Primes |-> a.exps[p] + b.exps[p]], pi |-> a.pi + b.pi]

\* the root of the rational number <<n, d>>^2 or of sqrt(n/d), times s
RootOf(s, n, d, squared) ==
    [sgn |-> s, num |-> 1,
     exps |-> [p \in Primes |-> (IF squared THEN 2 ELSE 1) * (Vp(p, n) - Vp(p, d))],
     pi |-> 0]

\* gaunt(l, k, l, m1, q, m3): the integral of three spherical harmonics,
\* sqrt((2l+1)^2 (2k+1) / (4 pi)) * 3j(l k l; 0 0 0) * 3j(l k l; m1 q m3)
gaunt(l, k, m1, q, m3) ==
    LET g == RootMul(RootMul(RootOf(1, 2 * l + 1, 1, TRUE), RootOf(1, 2 * k + 1, 1, FALSE)),
                     RootMul(wigner_3j(l, k, 0, 0, 0), wigner_3j(l, k, m1, q, m3)))
    IN IF g.sgn = 0 THEN ZeroRoot ELSE [g EXCEPT !.pi = 1]

\* ------------------------------------------------------------------------
\* Surds c * sqrt(r) and symbolic expressions in f0, f2, f4, f6
\* ------------------------------------------------------------------------
\* the exact value of a root free of pi, as <<c, r>> with r squarefree
Surd(a) ==
    IF a.sgn = 0 THEN <<0, 1>>
    ELSE LET up(p) == IF a.exps[p] >= 0 THEN Pow(p, a.exps[p] \div 2) ELSE 1
             down(p) == IF a.exps[p] < 0 THEN Pow(p, (1 - a.exps[p]) \div 2) ELSE 1
             rad(p) == IF a.exps[p] % 2 = 0 THEN 1 ELSE p
         IN <<a.sgn * ((a.num * PrimeProd([p \in Primes |-> up(p)])) \div PrimeProd([p \in Primes |-> down(p)])), PrimeProd([p \in Primes |-> rad(p)])>>

\* whether Surd(a) is exact: a is free of pi and its coefficient is an integer
SurdExact(a) ==
    \/ a.sgn = 0
    \/ LET up(p) == IF a.exps[p] >= 0 THEN Pow(p, a.exps[p] \div 2) ELSE 1
           down(p) == IF a.exps[p] < 0 THEN Pow(p, (1 - a.exps[p]) \div 2) ELSE 1
       IN a.pi = 0 /\ (a.num * PrimeProd([p \in Primes |-> up(p)])) % PrimeProd([p \in Primes |-> down(p)]) = 0

SurdMul(x, y) ==
    IF x[1] = 0 \/ y[1] = 0 THEN <<0, 1>>
    ELSE LET g == Gcd(x[2], y[2]) IN <<x[1] * y[1] * g, (x[2] * y[2]) \div (g * g)>>

Zero == << >>

Coef(e, key) == IF key \in DOMAIN e THEN e[key] ELSE 0

\* sum of coefs[i] * exprs[i], in normal form
ExprSum(coefs, exprs) ==
    LET total(key) == SumSeq([i \in 1 .. Len(exprs) |-> coefs[i] * Coef(exprs[i], key)])
        keys == UNION {DOMAIN exprs[i] : i \in 1 .. Len(exprs)}
    IN [key \in {k \in keys : total(k) # 0} |-> total(key)]

\* the monomial x * f_k
Monomial(k, x) == IF x[1] = 0 THEN Zero ELSE [key \in {<<k, x[2]>>} |-> x[1]]

\* ------------------------------------------------------------------------
\* lib.py: coulomb_contribution
\* ------------------------------------------------------------------------
Sqrt4Pi == [sgn |-> 1, num |-> 1, exps |-> [p \in Primes |-> 0], pi |-> -1]

\* the multipole orders k of shell l with their normalisation constants
\* pre = num / den: zip([0, 2, 4, 6], [f0, f2, f4, f6], [1, 15, 33, 429/5]) etc.
Multipoles(l) ==
    CASE l = 3 -> << <<0, 1, 1>>, <<2, 15, 1>>, <<4, 33, 1>>, <<6, 429, 5>> >>
      [] l = 2 -> << <<0, 1, 1>>, <<2, 7, 1>>, <<4, 21, 1>> >>
      [] l = 1 -> << <<0, 1, 1>>, <<2, 5, 1>> >>
      [] OTHER -> << >>

\* the m for which pre01 / pre02 is -1
OddM(l) ==
    CASE l = 3 -> {-3, -1, 1, 3}
      [] l = 2 -> {-1, 1}
      [] l = 1 -> {-1, 1}
      [] OTHER -> {}

\* T1 (with m = m1, mp = m4) and T2 (with m = m3, mp = m2):
\* pre0 * pre * sqrt(4*pi) * gaunt(l, k, l, -m, m - mp, mp) / sqrt(2*k + 1)
TFactor(l, mp3, m, mp) ==
    LET k == mp3[1]
        pre0 == IF m \in OddM(l) THEN -1 ELSE 1
    IN RootMul(RootMul(RootOf(pre0, mp3[2], mp3[3], TRUE), Sqrt4Pi),
               RootMul(gaunt(l, k, -m, m - mp, mp), RootOf(1, 1, 2 * k + 1, FALSE)))

MRange(l) == (-l) .. l

\* the values of T1 / T2, computed once: TTable[l][i][m][mp]
TTable ==
    [l \in 1 .. 3 |->
       [i \in 1 .. Len(Multipoles(l)) |->
          [m \in MRange(l) |-> [mp \in MRange(l) |-> Surd(TFactor(l, Multipoles(l)[i], m, mp))]]]]

\* T1 or T2 for the multipole Multipoles(l)[i]; gaunt is 0 when an m lies
\* outside -l .. l
TValue(l, i, m, mp) == IF m \in MRange(l) /\ mp \in MRange(l) THEN TTable[l][i][m][mp] ELSE <<0, 1>>

\* coulomb_contribution with the s shell sent through the multipole sum
\* (k = 0, f0, pre = 1), where gaunt(0, 0, 0, 0, 0, 0) = 1 / sqrt(4*pi)
coulomb_contribution_s_as_multipole(m1, m2, m3, m4, l) ==
    IF l = 0
    THEN IF m1 = 0 /\ m2 = 0 /\ m3 = 0 /\ m4 = 0 THEN Monomial(0, <<1, 1>>) ELSE Zero
    ELSE LET results == [i \in 1 .. Len(Multipoles(l)) |->
                           Monomial(Multipoles(l)[i][1],
                                    SurdMul(TValue(l, i, m1, m4), TValue(l, i, m3, m2)))]
         IN ExprSum([i \in 1 .. Len(results) |-> 1], results)

\* coulomb_contribution with pre02 left out of T2
coulomb_contribution_without_pre02(m1, m2, m3, m4, l) ==
    IF l = 0 THEN Zero
    ELSE LET pre02 == IF m3 \in OddM(l) THEN -1 ELSE 1
             results == [i \in 1 .. Len(Multipoles(l)) |->
                           Monomial(Multipoles(l)[i][1],
                                    SurdMul(TValue(l, i, m1, m4),
                                            SurdMul(<<pre02, 1>>, TValue(l, i, m3, m2))))]
         IN ExprSum([i \in 1 .. Len(results) |-> 1], results)

coulomb_contribution(m1, m2, m3, m4, l) ==
    IF l = 0 THEN Zero
    ELSE LET results == [i \in 1 .. Len(Multipoles(l)) |->
                           Monomial(Multipoles(l)[i][1],
                                    SurdMul(TValue(l, i, m1, m4), TValue(l, i, m3, m2)))]
         IN ExprSum([i \in 1 .. Len(results) |-> 1], results)

\* ------------------------------------------------------------------------
\* lib.py: single-particle states and configurations
\* ------------------------------------------------------------------------
\* orbital_l = {'s': 0, 'p': 1, 'd': 2, 'f': 3}
orbital_l == [o \in {"s", "p", "d", "f"} |-> CASE o = "s" -> 0 [] o = "p" -> 1 [] o = "d" -> 2 [] o = "f" -> 3]

\* get_single_states with range(-l, l): the last m_l of each spin is lost
get_single_states_short(l) ==
    [i \in 1 .. 2 * l |-> <<i - l - 1, 1>>] \o [i \in 1 .. 2 * l |-> <<i - l - 1, -1>>]

\* get_single_states with the two spin blocks exchanged
get_single_states_down_first(l) ==
    [i \in 1 .. 2 * l + 1 |-> <<i - l - 1, -1>>] \o [i \in 1 .. 2 * l + 1 |-> <<i - l - 1, 1>>]

get_single_states(l) ==
    [i \in 1 .. 2 * l + 1 |-> <<i - l - 1, 1>>] \o [i \in 1 .. 2 * l + 1 |-> <<i - l - 1, -1>>]

RECURSIVE combinations_off_by_one(_, _)
\* combinations that gives up one element too early
combinations_off_by_one(s, n) ==
    IF n = 0 THEN << << >> >>
    ELSE IF Len(s) <= n THEN << >>
    ELSE LET rest == combinations_off_by_one(Tail(s), n - 1)
         IN [i \in 1 .. Len(rest) |-> <<Head(s)>> \o rest[i]] \o combinations_off_by_one(Tail(s), n)

RECURSIVE combinations_last_first(_, _)
\* combinations that yields the subsequences without the head before those
\* starting with it
combinations_last_first(s, n) ==
    IF n = 0 THEN << << >> >>
    ELSE IF Len(s) < n THEN << >>
    ELSE LET rest == combinations_last_first(Tail(s), n - 1)
         IN combinations_last_first(Tail(s), n) \o [i \in 1 .. Len(rest) |-> <<Head(s)>> \o rest[i]]

RECURSIVE combinations(_, _)
\* itertools.combinations(s, n) for n >= 0: the n-subsequences of s in
\* lexicographic order of their index tuples
combinations(s, n) ==
    IF n = 0 THEN << << >> >>
    ELSE IF Len(s) < n THEN << >>
    ELSE LET rest == combinations(Tail(s), n - 1)
         IN [i \in 1 .. Len(rest) |-> <<Head(s)>> \o rest[i]] \o combinations(Tail(s), n)

\* sum(state[0] for state in config), sum(state[1] for state in config) (doubled)
SumML(config) == SumSeq([i \in 1 .. Len(config) |-> config[i][1]])

SumMS2(config) == SumSeq([i \in 1 .. Len(config) |-> config[i][2]])

\* enumerate_fn_configurations without the test of total_m_s
enumerate_fn_configurations_any_spin(n, target_m_l, target_m_s2, states) ==
    LET keep(config) == SumML(config) = target_m_l
    IN SelectSeq(combinations(states, n), keep)

\* enumerate_fn_configurations without the test of total_m_l
enumerate_fn_configurations_any_ml(n, target_m_l, target_m_s2, states) ==
    LET keep(config) == SumMS2(config) = target_m_s2
    IN SelectSeq(combinations(states, n), keep)

enumerate_fn_configurations(n, target_m_l, target_m_s2, states) ==
    LET keep(config) == SumML(config) = target_m_l /\ SumMS2(config) = target_m_s2
    IN SelectSeq(combinations(states, n), keep)

\* ------------------------------------------------------------------------
\* lib.py: get_required_coulomb_terms
\* ------------------------------------------------------------------------
\* Counter(s)[x]
Count(s, x) == Cardinality({i \in 1 .. Len(s) : s[i] = x})

\* s.index(x), 1-based; 0 stands for ValueError
Index(s, x) == IF \E i \in 1 .. Len(s) : s[i] = x THEN CHOOSE i \in 1 .. Len(s) : s[i] = x /\ \A j \in 1 .. i - 1 : s[j] # x ELSE 0

RECURSIVE CounterSubFrom(_, _, _)
CounterSubFrom(s1, s2, i) ==
    IF i > Len(s1) THEN << >>
    ELSE LET x == s1[i]
             left == Count(s1, x) - Count(s2, x)
         IN (IF Index(s1, x) = i /\ left > 0 THEN [j \in 1 .. left |-> x] ELSE << >>)
            \o CounterSubFrom(s1, s2, i + 1)

\* list((Counter(s1) - Counter(s2)).elements())
CounterSub(s1, s2) == CounterSubFrom(s1, s2, 1)

\* Counter(s1) == Counter(s2)
CounterEq(s1, s2) == \A x \in {s1[i] : i \in 1 .. Len(s1)} \cup {s2[i] : i \in 1 .. Len(s2)} : Count(s1, x) = Count(s2, x)

\* permutations(s, 2): the ordered pairs of positions i # j, in index order
permutations2(s) ==
    LET pairs == SelectSeq([q \in 1 .. Len(s) * Len(s) |-> <<((q - 1) \div Len(s)) + 1, ((q - 1) % Len(s)) + 1>>],
                           LAMBDA ij : ij[1] # ij[2])
    IN [q \in 1 .. Len(pairs) |-> <<s[pairs[q][1]], s[pairs[q][2]]>>]

\* Permutation(perm).signature(): the parity of the number of inversions
signature(perm) ==
    MinusOnePow(Cardinality({ij \in (1 .. Len(perm)) \X (1 .. Len(perm)) : ij[1] < ij[2] /\ perm[ij[1]] > perm[ij[2]]}))

Term(sign, kind, m1, m2, m3, m4) == [sign |-> sign, kind |-> kind, m |-> <<m1, m2, m3, m4>>]

RECURSIVE CaseATerms_exchange_always(_, _, _)
\* the state1 == state2 branch without the test ms1 == ms2
CaseATerms_exchange_always(state1, i, j) ==
    IF i > Len(state1) THEN << >>
    ELSE IF j > Len(state1) THEN CaseATerms_exchange_always(state1, i + 1, i + 2)
    ELSE <<Term(1, "direct", state1[i][1], state1[j][1], state1[i][1], state1[j][1]),
           Term(1, "exchange", state1[i][1], state1[j][1], state1[j][1], state1[i][1])>>
         \o CaseATerms_exchange_always(state1, i, j + 1)

RECURSIVE CaseATerms(_, _, _)
\* the double loop over i < j of the state1 == state2 branch, from (i, j) on
CaseATerms(state1, i, j) ==
    IF i > Len(state1) THEN << >>
    ELSE IF j > Len(state1) THEN CaseATerms(state1, i + 1, i + 2)
    ELSE <<Term(1, "direct", state1[i][1], state1[j][1], state1[i][1], state1[j][1])>>
         \o (IF state1[i][2] = state1[j][2]
             THEN <<Term(1, "exchange", state1[i][1], state1[j][1], state1[j][1], state1[i][1])>>
             ELSE << >>)
         \o CaseATerms(state1, i, j + 1)

\* trial_state after trial_state[idx_a] = c; trial_state[idx_b] = d
TrialState(state1, a, b, c, d) ==
    LET t1 == [state1 EXCEPT ![Index(state1, a)] = c]
    IN [t1 EXCEPT ![Index(state1, b)] = d]

\* the loop body guards with the reconstruction tested as
\* trial_state == list(state2), order included
Matches_ordered(state1, state2, a, b, c, d) ==
    /\ a[2] = c[2] /\ b[2] = d[2]
    /\ Index(state1, a) # 0 /\ Index(state1, b) # 0
    /\ TrialState(state1, a, b, c, d) = state2

\* whether the loop body for (a, b), (c, d) reaches "return terms"
Matches(state1, state2, a, b, c, d) ==
    /\ a[2] = c[2] /\ b[2] = d[2]
    /\ Index(state1, a) # 0 /\ Index(state1, b) # 0
    /\ CounterEq(TrialState(state1, a, b, c, d), state2)

\* the terms of the matching assignment with the sign left at +1
CaseBTerms_positive(state1, state2, a, b, c, d) ==
    <<Term(1, "direct", a[1], b[1], c[1], d[1])>>
    \o (IF a[2] = b[2] THEN <<Term(1, "exchange", a[1], b[1], d[1], c[1])>> ELSE << >>)

\* the terms of the matching assignment with the exchange term given -sign
CaseBTerms_exchange_negated(state1, state2, a, b, c, d) ==
    LET trial_state == TrialState(state1, a, b, c, d)
        perm == [i \in 1 .. Len(state2) |-> Index(trial_state, state2[i])]
        sign == signature(perm)
    IN <<Term(sign, "direct", a[1], b[1], c[1], d[1])>>
       \o (IF a[2] = b[2] THEN <<Term(-sign, "exchange", a[1], b[1], d[1], c[1])>> ELSE << >>)

\* the terms of the matching assignment with ml3, ml4 = c[0], c[0]
CaseBTerms_added_twice(state1, state2, a, b, c, d) ==
    LET trial_state == TrialState(state1, a, b, c, d)
        perm == [i \in 1 .. Len(state2) |-> Index(trial_state, state2[i])]
        sign == signature(perm)
    IN <<Term(sign, "direct", a[1], b[1], c[1], c[1])>>
       \o (IF a[2] = b[2] THEN <<Term(sign, "exchange", a[1], b[1], c[1], c[1])>> ELSE << >>)

\* the terms appended for the matching assignment (a, b, c, d)
CaseBTerms(state1, state2, a, b, c, d) ==
    LET trial_state == TrialState(state1, a, b, c, d)
        perm == [i \in 1 .. Len(state2) |-> Index(trial_state, state2[i])]
        sign == signature(perm)
    IN <<Term(sign, "direct", a[1], b[1], c[1], d[1])>>
       \o (IF a[2] = b[2] THEN <<Term(sign, "exchange", a[1], b[1], d[1], c[1])>> ELSE << >>)

\* the assignments (a, b, c, d) in the order the nested loops visit them
Assignments(removed, added) ==
    LET ab == permutations2(removed)
        cd == permutations2(added)
    IN [q \in 1 .. Len(ab) * Len(cd) |->
          ab[((q - 1) \div Len(cd)) + 1] \o cd[((q - 1) % Len(cd)) + 1]]

\* get_required_coulomb_terms that pairs the first spin-matching states of
\* the two differences, without the test of their number and without the
\* reconstruction test
get_required_coulomb_terms_unchecked(state1, state2) ==
    IF state1 = state2 THEN CaseATerms(state1, 1, 2)
    ELSE LET removed == CounterSub(state1, state2)
             added == CounterSub(state2, state1)
             asg == Assignments(removed, added)
             hits == {q \in 1 .. Len(asg) : asg[q][1][2] = asg[q][3][2] /\ asg[q][2][2] = asg[q][4][2]}
         IN IF hits = {} THEN << >>
            ELSE LET q == CHOOSE h \in hits : \A g \in hits : h <= g
                 IN CaseBTerms(state1, state2, asg[q][1], asg[q][2], asg[q][3], asg[q][4])

RECURSIVE CaseATerms_with_self(_, _, _)
\* the state1 == state2 branch with the inner loop as range(i, len(state1)):
\* every state is paired with itself as well
CaseATerms_with_self(state1, i, j) ==
    IF i > Len(state1) THEN << >>
    ELSE IF j > Len(state1) THEN CaseATerms_with_self(state1, i + 1, i + 1)
    ELSE <<Term(1, "direct", state1[i][1], state1[j][1], state1[i][1], state1[j][1])>>
         \o (IF state1[i][2] = state1[j][2]
             THEN <<Term(1, "exchange", state1[i][1], state1[j][1], state1[j][1], state1[i][1])>>
             ELSE << >>)
         \o CaseATerms_with_self(state1, i, j + 1)

\* get_required_coulomb_terms whose diagonal branch pairs each state with itself
get_required_coulomb_terms_self_pairs(state1, state2) ==
    IF state1 = state2 THEN CaseATerms_with_self(state1, 1, 1)
    ELSE LET removed == CounterSub(state1, state2)
             added == CounterSub(state2, state1)
         IN IF Len(removed) # 2 \/ Len(added) # 2 THEN << >>
            ELSE LET asg == Assignments(removed, added)
                     hits == {q \in 1 .. Len(asg) : Matches(state1, state2, asg[q][1], asg[q][2], asg[q][3], asg[q][4])}
                 IN IF hits = {} THEN << >>
                    ELSE LET q == CHOOSE h \in hits : \A g \in hits : h <= g
                         IN CaseBTerms(state1, state2, asg[q][1], asg[q][2], asg[q][3], asg[q][4])

get_required_coulomb_terms(state1, state2) ==
    IF state1 = state2 THEN CaseATerms(state1, 1, 2)
    ELSE LET removed == CounterSub(state1, state2)
             added == CounterSub(state2, state1)
         IN IF Len(removed) # 2 \/ Len(added) # 2 THEN << >>
            ELSE LET asg == Assignments(removed, added)
                     hits == {q \in 1 .. Len(asg) : Matches(state1, state2, asg[q][1], asg[q][2], asg[q][3], asg[q][4])}
                 IN IF hits = {} THEN << >>
                    ELSE LET q == CHOOSE h \in hits : \A g \in hits : h <= g
                         IN CaseBTerms(state1, state2, asg[q][1], asg[q][2], asg[q][3], asg[q][4])

\* ------------------------------------------------------------------------
\* server.py: the get_hamiltonian tool, one request
\* ------------------------------------------------------------------------
VARIABLES
    pc,                      \* position of the handler
    orbital,                 \* argument: shell label
    n_electrons,             \* argument
    target_ML,               \* argument
    target_MS2,              \* argument target_MS, doubled
    orb_l,                   \* the local l = orbital_l[orbital]; -1 before the lookup
    single_electron_states,  \* get_single_states(l)
    configs,                 \* enumerate_fn_configurations(...)
    H,                       \* the matrix, a function on (1..N) \X (1..N)
    response,                \* the pieces appended to the response text, in order
    raised,                  \* the exception that ended the request, or "none"
    call_state1,             \* get_required_coulomb_terms called on its own: first argument
    call_state2,             \* second argument
    call_terms,              \* the terms it returns
    call_entry               \* the matrix entry summed from these terms

\* ------------------------------------------------------------------------
\* main.py: the generate_multiplet_input tool, one request
\* (an absent optional argument is << >>, a supplied value v is <<v>>)
\* ------------------------------------------------------------------------
VARIABLES
    gen_pc,                  \* position of the tool
    Element,                 \* argument
    Valence,                 \* argument
    in_holes,                \* input_params["CELL"]["Holes"] as supplied, or << >>
    in_CF,                   \* input_params["CONTROL"]["CF"] as supplied, or << >>
    tenDQ,                   \* argument, or << >>
    p_control,               \* input_params.CONTROL, a function of its field names
    p_cell,                  \* input_params.CELL
    p_photon,                \* input_params.PHOTON
    input_text,              \* the sections of the generated INPUT text
    gen_raised               \* the exception that ended the request, or "none"

gen == <<gen_pc, Element, Valence, in_holes, in_CF, tenDQ, p_control, p_cell, p_photon, input_text, gen_raised>>

\* no generate_multiplet_input request is running
GenIdle ==
    /\ gen_pc = "idle"
    /\ Element = "" /\ Valence = 0
    /\ in_holes = << >> /\ in_CF = << >> /\ tenDQ = << >>
    /\ p_control = << >> /\ p_cell = << >> /\ p_photon = << >>
    /\ input_text = << >>
    /\ gen_raised = "none"

vars == <<pc, orbital, n_electrons, target_ML, target_MS2, orb_l, single_electron_states, configs, H, response, raised,
          call_state1, call_state2, call_terms, call_entry,
          gen_pc, Element, Valence, in_holes, in_CF, tenDQ, p_control, p_cell, p_photon, input_text, gen_raised>>

\* the variables of a direct call of get_required_coulomb_terms
call == <<call_state1, call_state2, call_terms, call_entry>>

request == <<orbital, n_electrons, target_ML, target_MS2>>

\* the labels a caller may send: the four shells and one that is none of them
Labels == {"s", "p", "d", "f", "g"}

\* total_contrib with the integral called as coulomb_contribution(m1, m2, m3, m4, l)
total_contrib_unswapped(terms, ll) ==
    ExprSum([i \in 1 .. Len(terms) |->
               IF terms[i].kind = "direct" THEN terms[i].sign
               ELSE IF terms[i].kind = "exchange" THEN -terms[i].sign ELSE 0],
            [i \in 1 .. Len(terms) |->
               coulomb_contribution(terms[i].m[1], terms[i].m[2], terms[i].m[3], terms[i].m[4], ll)])

\* the loop over terms of one matrix entry:
\* += sign * coulomb_contribution(m2, m1, m3, m4, l) for "direct",
\* -= sign * coulomb_contribution(m2, m1, m3, m4, l) for "exchange"
total_contrib(terms, ll) ==
    ExprSum([i \in 1 .. Len(terms) |->
               IF terms[i].kind = "direct" THEN terms[i].sign
               ELSE IF terms[i].kind = "exchange" THEN -terms[i].sign ELSE 0],
            [i \in 1 .. Len(terms) |->
               coulomb_contribution(terms[i].m[2], terms[i].m[1], terms[i].m[3], terms[i].m[4], ll)])

\* H[i, j] = simplify(total_contrib)
HEntry(cfg1, cfg2, ll) == total_contrib(get_required_coulomb_terms(cfg1, cfg2), ll)

\* H = zeros(len(configs)) filled by the double loop
Hamiltonian(cfgs, ll) ==
    [ij \in (1 .. Len(cfgs)) \X (1 .. Len(cfgs)) |-> HEntry(cfgs[ij[1]], cfgs[ij[2]], ll)]

\* the ceiling of the symbolic diagonalisation
EigenCeiling == 6

\* the test of the empty result left out
IsEmpty_never(cfgs) == FALSE

\* the ceiling tested with < in place of <=
CanDiagonalize_strict(cfgs) == Len(cfgs) < EigenCeiling

\* if len(configs) == 0
IsEmpty(cfgs) == Len(cfgs) = 0

\* if len(configs) <= 6
CanDiagonalize(cfgs) == Len(cfgs) <= EigenCeiling

Init ==
    /\ pc = "lookup"
    /\ orbital \in Labels
    /\ n_electrons \in (-1) .. MaxN
    /\ target_ML \in (-MaxML) .. MaxML
    /\ target_MS2 \in (-MaxMS2) .. MaxMS2
    /\ orb_l = -1
    /\ single_electron_states = << >>
    /\ configs = << >>
    /\ H = << >>
    /\ response = << >>
    /\ raised = "none"
    /\ call_state1 = << >>
    /\ call_state2 = << >>
    /\ call_terms = << >>
    /\ call_entry = Zero
    /\ GenIdle

\* l = orbital_l[orbital]; single_electron_states = get_single_states(l)
LookupOrbital ==
    /\ pc = "lookup"
    /\ IF orbital \in DOMAIN orbital_l
       THEN /\ orb_l' = orbital_l[orbital]
            /\ single_electron_states' = get_single_states(orbital_l[orbital])
            /\ pc' = "enumerate"
            /\ raised' = raised
       ELSE /\ raised' = "KeyError"
            /\ pc' = "failed"
            /\ UNCHANGED <<orb_l, single_electron_states>>
    /\ UNCHANGED <<request, configs, H, response, call, gen>>

\* configs = enumerate_fn_configurations(...); response = "Found ..."
\* (itertools.combinations raises ValueError for a negative n)
Enumerate ==
    /\ pc = "enumerate"
    /\ IF n_electrons < 0
       THEN /\ raised' = "ValueError"
            /\ pc' = "failed"
            /\ UNCHANGED <<configs, response>>
       ELSE /\ configs' = enumerate_fn_configurations(n_electrons, target_ML, target_MS2, single_electron_states)
            /\ response' = <<[tag |-> "found", count |-> Len(configs')]>>
            /\ pc' = "check_empty"
            /\ raised' = raised
    /\ UNCHANGED <<request, orb_l, single_electron_states, H, call, gen>>

\* if len(configs) == 0: return TextContent(text=response)
ReturnEmpty ==
    /\ pc = "check_empty"
    /\ IsEmpty(configs)
    /\ pc' = "done"
    /\ UNCHANGED <<request, orb_l, single_electron_states, configs, H, response, raised, call, gen>>

\* the listing of the configurations, H and its pretty print
Assemble ==
    /\ pc = "check_empty"
    /\ ~IsEmpty(configs)
    /\ H' = Hamiltonian(configs, orb_l)
    /\ response' = response
                   \o [idx \in 1 .. Len(configs) |-> [tag |-> "config", idx |-> idx, cfg |-> configs[idx]]]
                   \o <<[tag |-> "pretty", matrix |-> H']>>
    /\ pc' = "eigen"
    /\ UNCHANGED <<request, orb_l, single_electron_states, configs, raised, call, gen>>

\* if len(configs) <= 6: the eigenvalues of H with their multiplicities
Diagonalize ==
    /\ pc = "eigen"
    /\ CanDiagonalize(configs)
    /\ response' = Append(response, [tag |-> "eigenvalues", of |-> H])
    /\ pc' = "txt"
    /\ UNCHANGED <<request, orb_l, single_electron_states, configs, H, raised, call, gen>>

\* else: "Matrix too large to diagonalize symbolically."
SkipDiagonalize ==
    /\ pc = "eigen"
    /\ ~CanDiagonalize(configs)
    /\ response' = Append(response, [tag |-> "too_large"])
    /\ pc' = "txt"
    /\ UNCHANGED <<request, orb_l, single_electron_states, configs, H, raised, call, gen>>

\* response += "Hamiltonian Matrix (txt)"; return
ReturnResponse ==
    /\ pc = "txt"
    /\ response' = Append(response, [tag |-> "txt", matrix |-> H])
    /\ pc' = "done"
    /\ UNCHANGED <<request, orb_l, single_electron_states, configs, H, raised, call, gen>>

Next ==
    \/ LookupOrbital
    \/ Enumerate
    \/ ReturnEmpty
    \/ Assemble
    \/ Diagonalize
    \/ SkipDiagonalize
    \/ ReturnResponse

Spec == Init /\ [][Next]_vars

\* ------------------------------------------------------------------------
\* get_required_coulomb_terms and the entry sum on any two configurations of
\* one shell and one length
\* ------------------------------------------------------------------------
Range(s) == {s[i] : i \in 1 .. Len(s)}

\* the configurations of n electrons in shell ll
AllConfigurations ==
    [ll \in 0 .. 3 |-> [n \in 0 .. MaxN |-> Range(combinations(get_single_states(ll), n))]]

\* the configurations of the (M_L, M_S) sector of cfg1, which the double
\* loop of get_hamiltonian pairs with it
SectorOf(cfg1, ll) == {cfg2 \in AllConfigurations[ll][Len(cfg1)] : SumML(cfg2) = SumML(cfg1) /\ SumMS2(cfg2) = SumMS2(cfg1)}

\* any two configurations of a shell up to TermsMaxL, and any two
\* configurations of one sector of the larger shells
TermsInit ==
    /\ pc = "call"
    /\ orbital \in DOMAIN orbital_l
    /\ orb_l = orbital_l[orbital]
    /\ single_electron_states = get_single_states(orb_l)
    /\ n_electrons \in 0 .. MaxN
    /\ call_state1 \in AllConfigurations[orb_l][n_electrons]
    /\ call_state2 \in (IF orb_l <= TermsMaxL THEN AllConfigurations[orb_l][n_electrons] ELSE SectorOf(call_state1, orb_l))
    /\ call_terms = << >>
    /\ call_entry = Zero
    /\ target_ML = SumML(call_state1)
    /\ target_MS2 = SumMS2(call_state1)
    /\ configs = << >>
    /\ H = << >>
    /\ response = << >>
    /\ raised = "none"
    /\ GenIdle

\* terms = get_required_coulomb_terms(cfg1, cfg2)
SelectTerms ==
    /\ pc = "call"
    /\ call_terms' = get_required_coulomb_terms(call_state1, call_state2)
    /\ pc' = "selected"
    /\ UNCHANGED <<request, orb_l, single_electron_states, configs, H, response, raised, call_state1, call_state2, call_entry, gen>>

\* the loop over terms and H[i, j] = simplify(total_contrib)
SumEntry ==
    /\ pc = "selected"
    /\ call_entry' = total_contrib(call_terms, orb_l)
    /\ pc' = "summed"
    /\ UNCHANGED <<request, orb_l, single_electron_states, configs, H, response, raised, call_state1, call_state2, call_terms, gen>>

TermsNext ==
    \/ SelectTerms
    \/ SumEntry

TermsSpec == TermsInit /\ [][TermsNext]_vars

\* ------------------------------------------------------------------------
\* inputs.py and main.py: generate_multiplet_input
\* (numbers that are not integers are kept as their literals)
\* ------------------------------------------------------------------------
MaxValence == 4    \* largest Valence requested
MaxHoles == 5      \* largest CELL.Holes a caller supplies
MaxCF == 3         \* largest crystal field a caller supplies in CONTROL.CF
MaxTenDQ == 2      \* |tenDQ| requested

\* zero_val
zero_val ==
    [e \in {"Zn", "Cu", "Ni", "Co", "Fe", "Mn", "Cr", "V", "Ti"} |->
        CASE e = "Zn" -> -2 [] e = "Cu" -> -1 [] e = "Ni" -> 0 [] e = "Co" -> 1 [] e = "Fe" -> 2
          [] e = "Mn" -> 3 [] e = "Cr" -> 4 [] e = "V" -> 5 [] e = "Ti" -> 6]

\* the valences atomic_data[element] has an entry for
atomic_valences ==
    [e \in DOMAIN zero_val |->
        CASE e = "Zn" -> {3, 4} [] e = "Cu" -> {2, 3, 4} [] e = "Ni" -> {1, 2, 3, 4}
          [] e = "Ti" -> {0, 1, 2, 3} [] OTHER -> {0, 1, 2, 3, 4}]

\* atomic_data[element][valence]: the four lists of Slater and spin-orbit
\* parameters, each named by where it comes from
atomic_data(e, v) == [k \in {"SO", "SC2", "SC2EX", "FG"} |-> <<e, v, k>>]

\* ControlParams(), CellParams(Holes=0), PhotonParams()
ControlParams ==
    [CF |-> <<0, 0, 1, 1, 1>>, SO |-> <<0, 0, 0>>, SC2 |-> <<0, 0, 0, 0, 0>>,
     SC2EX |-> <<0, 0, 0, 0, 0>>, FG |-> <<0, 0, 0, 0>>]

CellParams == [Holes |-> 0]

PhotonParams ==
    [XAS |-> TRUE, RIXS |-> FALSE, pvin |-> <<1, 1, 1>>, pvout |-> <<1, 1, 1>>, epsab |-> "0.5", epsloss |-> "0.3"]

\* {**d, **u}: the keys of d in their order, then the new keys of u; the
\* values of u win
MergedKeys(dkeys, ukeys) == dkeys \o SelectSeq(ukeys, LAMBDA k : \A i \in 1 .. Len(dkeys) : dkeys[i] # k)

Merged(d, u, k) == IF k \in DOMAIN u THEN u[k] ELSE d[k]

\* model_copy(update=...)
model_copy(m, update) == [k \in DOMAIN m |-> IF k \in DOMAIN update THEN update[k] ELSE m[k]]

\* the defaults of create_multiplet_input and the order of their keys
InputDefaults ==
    [CONTROL |-> [HFscale |-> "0.8", DIAG |-> 4, OVERWRITE |-> FALSE, EFFDEL |-> TRUE,
                  CF |-> <<0, 0, 1, 1, 1>>, EXNEV |-> 10, GSNEV |-> 10],
     CELL |-> [Coordination |-> "", Sites |-> 1, HYBMAT |-> "", Holes |-> 0],
     PHOTON |-> [XAS |-> TRUE, RIXS |-> FALSE, pvin |-> <<1, 1, 1>>, pvout |-> <<1, 1, 1>>, solver |-> 4,
                 epsab |-> "0.5", epsloss |-> "0.3", niterCFE |-> 120, CGTOL |-> "1e-08", precond |-> 0,
                 NEDOS |-> 2000, AB |-> <<-20, 20>>, ABMAX |-> 30, INCIDENT |-> <<8, 21, -1>>,
                 CROSS |-> FALSE, Edge |-> "L"]]

DefaultKeys ==
    [CONTROL |-> <<"HFscale", "DIAG", "OVERWRITE", "EFFDEL", "CF", "EXNEV", "GSNEV">>,
     CELL |-> <<"Coordination", "Sites", "HYBMAT", "Holes">>,
     PHOTON |-> <<"XAS", "RIXS", "pvin", "pvout", "solver", "epsab", "epsloss", "niterCFE", "CGTOL", "precond",
                  "NEDOS", "AB", "ABMAX", "INCIDENT", "CROSS", "Edge">>]

\* the field order of the pydantic models (model_dump)
ModelKeys ==
    [CONTROL |-> <<"CF", "SO", "SC2", "SC2EX", "FG">>,
     CELL |-> <<"Holes">>,
     PHOTON |-> <<"XAS", "RIXS", "pvin", "pvout", "epsab", "epsloss">>]

\* key.upper() of the keys that are not upper case already
upper(k) ==
    CASE k = "HFscale" -> "HFSCALE" [] k = "Coordination" -> "COORDINATION" [] k = "Sites" -> "SITES"
      [] k = "Holes" -> "HOLES" [] k = "pvin" -> "PVIN" [] k = "pvout" -> "PVOUT" [] k = "solver" -> "SOLVER"
      [] k = "epsab" -> "EPSAB" [] k = "epsloss" -> "EPSLOSS" [] k = "niterCFE" -> "NITERCFE"
      [] k = "precond" -> "PRECOND" [] k = "Edge" -> "EDGE" [] OTHER -> k

\* the lines of one section: "&SECTION", one "KEY = value" per merged key, "/"
SectionLines(section, section_dict) ==
    LET keys == MergedKeys(DefaultKeys[section], ModelKeys[section])
    IN <<[line |-> "section", name |-> section]>>
       \o [i \in 1 .. Len(keys) |->
             [line |-> "param", key |-> upper(keys[i]),
              value |-> Merged(InputDefaults[section], section_dict, keys[i])]]
       \o <<[line |-> "end"]>>

\* create_multiplet_input(input_params)
create_multiplet_input(control, cell, photon) ==
    SectionLines("CONTROL", control) \o SectionLines("CELL", cell) \o SectionLines("PHOTON", photon)

\* the elements a caller may name: those of zero_val and one unknown
Elements == DOMAIN zero_val \cup {"Xx"}

\* the crystal field lists a caller may supply
SuppliedCF == {<<0, 0, c, c, c>> : c \in 1 .. MaxCF}

GenInit ==
    /\ gen_pc = "params"
    /\ Element \in Elements
    /\ Valence \in (-1) .. MaxValence
    /\ in_holes \in {<< >>} \cup {<<h>> : h \in 0 .. MaxHoles}
    /\ in_CF \in {<< >>} \cup {<<cf>> : cf \in SuppliedCF}
    /\ tenDQ \in {<< >>} \cup {<<t>> : t \in (-MaxTenDQ) .. MaxTenDQ}
    /\ p_control = << >> /\ p_cell = << >> /\ p_photon = << >>
    /\ input_text = << >>
    /\ gen_raised = "none"
    /\ pc = "idle"
    /\ orbital = "s" /\ n_electrons = 0 /\ target_ML = 0 /\ target_MS2 = 0
    /\ orb_l = -1
    /\ single_electron_states = << >>
    /\ configs = << >>
    /\ H = << >>
    /\ response = << >>
    /\ raised = "none"
    /\ call_state1 = << >> /\ call_state2 = << >> /\ call_terms = << >> /\ call_entry = Zero

handler == <<pc, orbital, n_electrons, target_ML, target_MS2, orb_l, single_electron_states, configs, H, response, raised>>

gen_request == <<Element, Valence, in_holes, in_CF, tenDQ>>

\* input_params = InputParams() or InputParams(**input_params.model_dump())
BuildParams ==
    /\ gen_pc = "params"
    /\ p_control' = (IF in_CF = << >> THEN ControlParams ELSE [ControlParams EXCEPT !.CF = in_CF[1]])
    /\ p_cell' = (IF in_holes = << >> THEN CellParams ELSE [CellParams EXCEPT !.Holes = in_holes[1]])
    /\ p_photon' = PhotonParams
    /\ gen_pc' = "tendq"
    /\ UNCHANGED <<gen_request, input_text, gen_raised, handler, call>>

\* if tenDQ is not None: input_params.CONTROL.CF = [0, 0, tenDQ, tenDQ, tenDQ]
ApplyTenDQ ==
    /\ gen_pc = "tendq"
    /\ p_control' = (IF tenDQ # << >>
                     THEN [p_control EXCEPT !.CF = <<0, 0, tenDQ[1], tenDQ[1], tenDQ[1]>>]
                     ELSE p_control)
    /\ gen_pc' = "dparams"
    /\ UNCHANGED <<gen_request, p_cell, p_photon, input_text, gen_raised, handler, call>>

\* holes, dcontrol = get_dParams(Element, Valence);
\* input_params.CELL.Holes = holes;
\* input_params.CONTROL = input_params.CONTROL.model_copy(update=dcontrol)
GetDParams ==
    /\ gen_pc = "dparams"
    /\ IF Element \notin DOMAIN zero_val
       THEN /\ gen_raised' = "KeyError"
            /\ gen_pc' = "failed"
            /\ UNCHANGED <<p_control, p_cell>>
       ELSE IF zero_val[Element] + Valence < 0 \/ Valence \notin atomic_valences[Element]
       THEN /\ gen_raised' = "ValueError"
            /\ gen_pc' = "failed"
            /\ UNCHANGED <<p_control, p_cell>>
       ELSE /\ p_cell' = [p_cell EXCEPT !.Holes = zero_val[Element] + Valence]
            /\ p_control' = model_copy(p_control, atomic_data(Element, Valence))
            /\ gen_pc' = "create"
            /\ gen_raised' = gen_raised
    /\ UNCHANGED <<gen_request, p_photon, input_text, handler, call>>

\* input_text = create_multiplet_input(input_params); return
CreateInput ==
    /\ gen_pc = "create"
    /\ input_text' = create_multiplet_input(p_control, p_cell, p_photon)
    /\ gen_pc' = "done"
    /\ UNCHANGED <<gen_request, p_control, p_cell, p_photon, gen_raised, handler, call>>

GenNext ==
    \/ BuildParams
    \/ ApplyTenDQ
    \/ GetDParams
    \/ CreateInput

GenSpec == GenInit /\ [][GenNext]_vars

\* ------------------------------------------------------------------------
\* Properties
\* ------------------------------------------------------------------------
\* configs holds the result of enumerate_fn_configurations
Enumerated == pc \in {"check_empty", "eigen", "txt", "done"}

\* H holds the assembled matrix
Assembled == pc \in {"eigen", "txt", "done"} /\ Len(configs) # 0

Square(cfgs) == (1 .. Len(cfgs)) \X (1 .. Len(cfgs))

HasTag(t) == \E i \in 1 .. Len(response) : response[i].tag = t

\* C1: the matrix assembled by get_hamiltonian over the enumerated
\* configurations is square, of dimension the number of configurations, and
\* symmetric: H[i][j] = H[j][i] for every i, j.
C1_HamiltonianSquareSymmetric ==
    Assembled =>
        /\ DOMAIN H = Square(configs)
        /\ \A i \in 1 .. Len(configs) : \A j \in 1 .. Len(configs) : H[<<i, j>>] = H[<<j, i>>]

\* an f-shell matrix of dimension >= 3 with a non-zero off-diagonal entry
C1_Witness ==
    /\ Assembled
    /\ orb_l = 3
    /\ Len(configs) >= 3
    /\ \E i \in 1 .. Len(configs) : \E j \in 1 .. Len(configs) : i # j /\ H[<<i, j>>] # Zero

\* C2: for 1 <= n <= 2(2l+1), every enumerated configuration has exactly n
\* pairwise distinct states of the shell, its m_l sum to M_L and its m_s to M_S.
C2_ConfigurationsValid ==
    (Enumerated /\ n_electrons >= 1 /\ n_electrons <= 2 * (2 * orb_l + 1)) =>
        \A i \in 1 .. Len(configs) :
            LET config == configs[i]
                ups == {k \in 1 .. Len(config) : config[k][2] = 1}
                downs == {k \in 1 .. Len(config) : config[k][2] = -1}
            IN /\ Len(config) = n_electrons
               /\ \A k \in 1 .. Len(config) : \A q \in 1 .. Len(config) : k # q => config[k] # config[q]
               /\ \A k \in 1 .. Len(config) : \E q \in 1 .. Len(single_electron_states) : config[k] = single_electron_states[q]
               /\ SumSeq([k \in 1 .. Len(config) |-> config[k][1]]) = target_ML
               /\ ups \cup downs = 1 .. Len(config)
               /\ Cardinality(ups) - Cardinality(downs) = target_MS2

\* a d-shell sector of three electrons with several configurations
C2_Witness == Enumerated /\ orb_l = 2 /\ n_electrons = 3 /\ Len(configs) >= 2

\* the positions k of the state space taken by the n-subsets that total
\* (M_L, M_S)
QualifyingSubsets ==
    {S \in SUBSET (1 .. Len(single_electron_states)) :
        /\ Cardinality(S) = n_electrons
        /\ SumSeq([k \in 1 .. Len(single_electron_states) |-> IF k \in S THEN single_electron_states[k][1] ELSE 0]) = target_ML
        /\ SumSeq([k \in 1 .. Len(single_electron_states) |-> IF k \in S THEN single_electron_states[k][2] ELSE 0]) = target_MS2}

\* C3: the enumeration is complete and free of duplicates: every n-subset of
\* the state space that totals (M_L, M_S) is the state set of exactly one
\* entry of the list, and no two entries have the same state set.
C3_EnumerationCompleteNoDuplicates ==
    Enumerated =>
        /\ \A S \in QualifyingSubsets :
              Cardinality({i \in 1 .. Len(configs) : Range(configs[i]) = {single_electron_states[k] : k \in S}}) = 1
        /\ \A i \in 1 .. Len(configs) : \A j \in 1 .. Len(configs) : i # j => Range(configs[i]) # Range(configs[j])

\* the largest f-shell sector of three electrons
C3_Witness == Enumerated /\ orb_l = 3 /\ n_electrons = 3 /\ Len(configs) = 17 /\ Cardinality(QualifyingSubsets) = 17

\* the number of states of the first configuration absent from the second
Differing(s1, s2) == Cardinality(Range(s1) \ Range(s2))

\* C4: two configurations of one length that differ in more than two states
\* get the empty term list, and their matrix entry is 0.
C4_MoreThanTwoDifferNoTerms ==
    (pc \in {"selected", "summed"} /\ Len(call_state1) = Len(call_state2) /\ Differing(call_state1, call_state2) > 2) =>
        /\ call_terms = << >>
        /\ pc = "summed" => call_entry = Zero

\* two p-shell configurations of three electrons with no common state
C4_Witness == pc = "summed" /\ Len(call_state1) = 3 /\ Differing(call_state1, call_state2) = 3

\* the request names no shell, or more electrons than the shell has states
InvalidRequest ==
    \/ orbital \notin DOMAIN orbital_l
    \/ n_electrons > 2 * (2 * orbital_l[orbital] + 1)

\* C5: a request with an unknown shell label, or with n_electrons above the
\* 2(2l+1) states of the shell, fails before any configuration is enumerated
\* and never returns a normal result.
C5_InvalidInputFailsFast ==
    InvalidRequest => ~Enumerated

FullHamiltonianReported ==
    /\ DOMAIN H = Square(configs)
    /\ \E i \in 1 .. Len(response) : response[i].tag = "pretty" /\ response[i].matrix = H
    /\ \E i \in 1 .. Len(response) : response[i].tag = "txt" /\ response[i].matrix = H

\* C7: the eigenvalues are reported exactly when there are between 1 and 6
\* configurations; above 6 the response says that the diagonalisation was
\* skipped; in both cases the whole matrix is reported.
C7_EigenvaluesIffSmall ==
    pc = "done" =>
        /\ HasTag("eigenvalues") <=> (1 <= Len(configs) /\ Len(configs) <= 6)
        /\ Len(configs) > 6 => HasTag("too_large")
        /\ HasTag("too_large") => Len(configs) > 6
        /\ Len(configs) >= 1 => FullHamiltonianReported

\* a returned request with more than 6 configurations
C7_Witness == pc = "done" /\ Len(configs) > 6 /\ HasTag("too_large")

\* C8: get_single_states(l) has exactly 2(2l+1) states, none twice.
C8_StateSpaceSize ==
    orb_l # -1 =>
        /\ Len(single_electron_states) = 2 * (2 * orb_l + 1)
        /\ Cardinality(Range(single_electron_states)) = Len(single_electron_states)

\* the 14 states of the f shell
C8_Witness == orb_l = 3 /\ Len(single_electron_states) = 14

\* C9: get_single_states(l) lists (m_l, +1/2) for m_l = -l .. l ascending,
\* then (m_l, -1/2) for m_l = -l .. l ascending.
C9_CanonicalOrder ==
    orb_l # -1 =>
        LET half == Len(single_electron_states) \div 2
        IN /\ Len(single_electron_states) = 2 * half
           /\ \A i \in 1 .. half :
                 /\ single_electron_states[i][2] = 1
                 /\ single_electron_states[half + i][2] = -1
                 /\ single_electron_states[i][1] = single_electron_states[half + i][1]
           /\ single_electron_states[1][1] = -orb_l
           /\ single_electron_states[half][1] = orb_l
           /\ \A i \in 1 .. half - 1 : single_electron_states[i + 1][1] = single_electron_states[i][1] + 1

\* the d shell after the lookup
C9_Witness == orb_l = 2 /\ single_electron_states[6] = <<-2, -1>>

\* C10: for l = 0 coulomb_contribution is 0 whatever the four magnetic
\* quantum numbers, and every entry of an s-shell matrix is 0.
C10_SShellVanishes ==
    orb_l = 0 =>
        /\ \A m1 \in (-MaxM) .. MaxM : \A m2 \in (-MaxM) .. MaxM : \A m3 \in (-MaxM) .. MaxM : \A m4 \in (-MaxM) .. MaxM :
              coulomb_contribution(m1, m2, m3, m4, orb_l) = Zero
        /\ Assembled => \A ij \in DOMAIN H : H[ij] = Zero

\* the s shell with both states occupied: one entry, summed from one direct term
C10_Witness ==
    /\ orb_l = 0
    /\ pc = "done"
    /\ n_electrons = 2
    /\ Len(configs) = 1
    /\ Len(get_required_coulomb_terms(configs[1], configs[1])) = 1

\* C11 as stated: for the d shell with one electron the matrix is the 1x1
\* zero matrix whatever the target (M_L, M_S).
C11_OneElectronAnyTargetZeroMatrix ==
    (pc = "done" /\ orbital = "d" /\ n_electrons = 1) =>
        /\ DOMAIN H = {<<1, 1>>}
        /\ H[<<1, 1>>] = Zero

\* the targets a single d electron can have
OneElectronTarget == target_ML \in (-2) .. 2 /\ target_MS2 \in {-1, 1}

\* C11 as amended: for the d shell with one electron and a target some state
\* of the shell has (|M_L| <= 2, M_S = +1/2 or -1/2) there is exactly one
\* configuration, the Case A pair loop emits no term for it and the matrix is
\* the 1x1 zero matrix; for every other target the request reports zero
\* configurations and no matrix.
C11_OneElectronZeroMatrixWhenSectorExists ==
    (pc = "done" /\ orbital = "d" /\ n_electrons = 1) =>
        IF OneElectronTarget
        THEN /\ Len(configs) = 1
             /\ get_required_coulomb_terms(configs[1], configs[1]) = << >>
             /\ DOMAIN H = {<<1, 1>>}
             /\ H[<<1, 1>>] = Zero
             /\ HasTag("pretty")
        ELSE /\ Len(configs) = 0
             /\ response = <<[tag |-> "found", count |-> 0]>>

\* a d electron with m_l = 2, spin down, has returned
C11_Witness ==
    /\ pc = "done" /\ orbital = "d" /\ n_electrons = 1
    /\ target_ML = 2 /\ target_MS2 = -1
    /\ configs = << << <<2, -1>> >> >>
    /\ DOMAIN H = {<<1, 1>>}

\* ------------------------------------------------------------------------
\* H.eigenvals() for a matrix f0 * I + f2 * A with A an integer matrix:
\* the eigenvalues are f0 + x * f2 for the roots x of det(A - x I)
\* ------------------------------------------------------------------------
MaxEig == 12       \* |x| of the integer roots searched

KeyF0 == <<0, 1>>

KeyF2 == <<2, 1>>

\* whether the N x N matrix Hm is f0 * I + f2 * A for an integer matrix A
IsF0F2Form(Hm, N) ==
    /\ DOMAIN Hm = (1 .. N) \X (1 .. N)
    /\ \A ij \in DOMAIN Hm :
          /\ DOMAIN Hm[ij] \subseteq {KeyF0, KeyF2}
          /\ Coef(Hm[ij], KeyF0) = (IF ij[1] = ij[2] THEN 1 ELSE 0)

\* the rows of A - x I
ShiftedF2Rows(Hm, N, x) ==
    [i \in 1 .. N |-> [j \in 1 .. N |-> Coef(Hm[<<i, j>>], KeyF2) - (IF i = j THEN x ELSE 0)]]

\* row 1 and column j struck out of the rows M
Minor(M, j) ==
    [i \in 1 .. Len(M) - 1 |-> [q \in 1 .. Len(M) - 1 |-> M[i + 1][IF q < j THEN q ELSE q + 1]]]

RECURSIVE Det(_)
\* the determinant, expanded along the first row
Det(M) ==
    IF Len(M) = 0 THEN 1
    ELSE SumSeq([j \in 1 .. Len(M) |-> (IF j % 2 = 1 THEN 1 ELSE -1) * M[1][j] * Det(Minor(M, j))])

\* the x with f0 + x * f2 an eigenvalue of Hm
eigenvals(Hm, N) == {x \in (-MaxEig) .. MaxEig : Det(ShiftedF2Rows(Hm, N, x)) = 0}

\* the matrix whose eigenvalues the response reports
Diagonalized == response[CHOOSE i \in 1 .. Len(response) : response[i].tag = "eigenvalues"].of

\* the request for the p2 sector M_L = 0, M_S = 0
P2Sector == orbital = "p" /\ n_electrons = 2 /\ target_ML = 0 /\ target_MS2 = 0

\* C12: for p, n = 2, M_L = 0, M_S = 0 there are exactly three
\* configurations and the eigenvalues of the 3x3 matrix are f0 + f2,
\* f0 - 5 f2 and f0 + 10 f2 (three distinct roots of a cubic: each of
\* multiplicity 1).
C12_P2MultipletEnergies ==
    (pc = "done" /\ P2Sector) =>
        /\ configs = << << <<-1, 1>>, <<1, -1>> >>, << <<0, 1>>, <<0, -1>> >>, << <<1, 1>>, <<-1, -1>> >> >>
        /\ HasTag("eigenvalues")
        /\ IsF0F2Form(Diagonalized, 3)
        /\ eigenvals(Diagonalized, 3) = {1, -5, 10}

\* the p2 request has returned with its eigenvalue section
C12_Witness == pc = "done" /\ P2Sector /\ Len(configs) = 3 /\ HasTag("eigenvalues") /\ Diagonalized = H

\* the state-space indices of the states of a configuration, in its order
Positions(config) == [k \in 1 .. Len(config) |-> Index(single_electron_states, config[k])]

\* index tuples of one length: p before q in lexicographic order
LexLess(p, q) ==
    \E k \in 1 .. Len(p) :
        /\ p[k] < q[k]
        /\ \A j \in 1 .. k - 1 : p[j] = q[j]

\* C13: the enumerated list is in lexicographic order of the state-space
\* index tuples of its configurations, and each configuration lists its
\* states in ascending state-space order; with C3 this fixes the list, which
\* is therefore the same on every call with the same inputs.
C13_EnumerationOrder ==
    Enumerated =>
        /\ \A i \in 1 .. Len(configs) :
              /\ \A k \in 1 .. Len(configs[i]) : Positions(configs[i])[k] # 0
              /\ \A k \in 1 .. Len(configs[i]) - 1 : Positions(configs[i])[k] < Positions(configs[i])[k + 1]
        /\ \A i \in 1 .. Len(configs) - 1 : LexLess(Positions(configs[i]), Positions(configs[i + 1]))

\* an f-shell sector of three electrons with its 17 configurations
C13_Witness ==
    /\ Enumerated /\ orb_l = 3 /\ n_electrons = 3 /\ Len(configs) = 17
    /\ LexLess(Positions(configs[1]), Positions(configs[17]))

\* the value of the line "KEY = value" of the generated text
TextValue(key) ==
    input_text[CHOOSE i \in 1 .. Len(input_text) : input_text[i].line = "param" /\ input_text[i].key = key].value

\* C14: a CELL.Holes value supplied in input_params is the hole count of the
\* generated text, just as a supplied CONTROL.CF is its crystal field when
\* tenDQ is not given.
C14_SuppliedHolesOverride ==
    gen_pc = "done" =>
        /\ in_holes # << >> => TextValue("HOLES") = in_holes[1]
        /\ (in_CF # << >> /\ tenDQ = << >>) => TextValue("CF") = in_CF[1]

\* get_required_coulomb_terms has returned in the direct call
Selected == pc \in {"selected", "summed"}

\* the pairs i < j of positions of a configuration
Pairs(config) == {ij \in (1 .. Len(config)) \X (1 .. Len(config)) : ij[1] < ij[2]}

\* the number of returned terms of one kind with the indices m
TermCount(kind, m) == Cardinality({k \in 1 .. Len(call_terms) : call_terms[k].kind = kind /\ call_terms[k].m = m})

\* C15: for two identical configurations the terms are, with sign +1, one
\* direct term (m_i, m_j, m_i, m_j) per pair i < j, one exchange term
\* (m_i, m_j, m_j, m_i) per pair i < j of equal m_s, and nothing else.
C15_CaseATerms ==
    (Selected /\ call_state1 = call_state2) =>
        LET same_spin == {ij \in Pairs(call_state1) : call_state1[ij[1]][2] = call_state1[ij[2]][2]}
            n == Len(call_state1)
        IN /\ \A k \in 1 .. Len(call_terms) :
                 /\ call_terms[k].sign = 1
                 /\ \/ call_terms[k].kind = "direct" /\ call_terms[k].m[3] = call_terms[k].m[1]
                       /\ call_terms[k].m[4] = call_terms[k].m[2]
                    \/ call_terms[k].kind = "exchange" /\ call_terms[k].m[3] = call_terms[k].m[2]
                       /\ call_terms[k].m[4] = call_terms[k].m[1]
           /\ \A x \in MRange(orb_l) : \A y \in MRange(orb_l) :
                 /\ TermCount("direct", <<x, y, x, y>>)
                      = Cardinality({ij \in Pairs(call_state1) : call_state1[ij[1]][1] = x /\ call_state1[ij[2]][1] = y})
                 /\ TermCount("exchange", <<x, y, y, x>>)
                      = Cardinality({ij \in same_spin : call_state1[ij[1]][1] = x /\ call_state1[ij[2]][1] = y})
           /\ 2 * Cardinality({k \in 1 .. Len(call_terms) : call_terms[k].kind = "direct"}) = n * (n - 1)
           /\ Len(call_terms) = Cardinality(Pairs(call_state1)) + Cardinality(same_spin)

\* three p electrons, two of them of one spin: three direct terms and one
\* exchange term
C15_Witness ==
    /\ pc = "summed"
    /\ call_state1 = call_state2
    /\ call_state1 = << <<-1, 1>>, <<0, 1>>, <<0, -1>> >>
    /\ Len(call_terms) = 4

\* the states of s1 that s2 lacks, in the order of s1
Lacking(s1, s2) == SelectSeq(s1, LAMBDA x : \A i \in 1 .. Len(s2) : s2[i] # x)

RECURSIVE Iterate(_, _, _)
\* perm applied k times to i
Iterate(perm, i, k) == IF k = 0 THEN i ELSE Iterate(perm, perm[i], k - 1)

\* the parity of a permutation of 1 .. n from its cycles: (-1)^(n - cycles)
CycleParity(perm) ==
    LET n == Len(perm)
        orbit(i) == {Iterate(perm, i, k) : k \in 0 .. n - 1}
    IN MinusOnePow(n - Cardinality({orbit(i) : i \in 1 .. n}))

\* configuration s1 with a -> c and b -> d substituted in place
Substituted(s1, a, b, c, d) == [i \in 1 .. Len(s1) |-> IF s1[i] = a THEN c ELSE IF s1[i] = b THEN d ELSE s1[i]]

\* the index permutation that maps the substituted configuration onto s2
Alignment(s1, s2, a, b, c, d) ==
    [i \in 1 .. Len(s2) |-> CHOOSE p \in 1 .. Len(s1) : Substituted(s1, a, b, c, d)[p] = s2[i]]

\* the four assignments in search order: orderings of the removed pair
\* outer, orderings of the added pair inner
SearchOrder(s1, s2) ==
    LET r == Lacking(s1, s2)
        a == Lacking(s2, s1)
    IN << <<r[1], r[2], a[1], a[2]>>, <<r[1], r[2], a[2], a[1]>>,
          <<r[2], r[1], a[1], a[2]>>, <<r[2], r[1], a[2], a[1]>> >>

SpinMatched(asg) == asg[1][2] = asg[3][2] /\ asg[2][2] = asg[4][2]

\* C16: for two distinct configurations with exactly two removed and two
\* added states the terms are those of the first spin-matched assignment
\* (a, b, c, d) in search order: a direct term (m_a, m_b, m_c, m_d) with the
\* parity of the aligning permutation as its sign, and an exchange term
\* (m_a, m_b, m_d, m_c) of the same sign exactly when m_s(a) = m_s(b); at
\* most two terms in all.
C16_CaseBTerms ==
    (/\ Selected
     /\ call_state1 # call_state2
     /\ Differing(call_state1, call_state2) = 2
     /\ Differing(call_state2, call_state1) = 2) =>
        LET order == SearchOrder(call_state1, call_state2)
            matched == {q \in 1 .. 4 : SpinMatched(order[q])}
        IN /\ Len(call_terms) <= 2
           /\ matched = {} => call_terms = << >>
           /\ matched # {} =>
                 LET q == CHOOSE h \in matched : \A g \in matched : h <= g
                     a == order[q][1]
                     b == order[q][2]
                     c == order[q][3]
                     d == order[q][4]
                     sign == CycleParity(Alignment(call_state1, call_state2, a, b, c, d))
                 IN /\ Len(call_terms) >= 1
                    /\ sign \in {-1, 1}
                    /\ call_terms[1] = [sign |-> sign, kind |-> "direct", m |-> <<a[1], b[1], c[1], d[1]>>]
                    /\ Len(call_terms) = 2 <=> a[2] = b[2]
                    /\ Len(call_terms) = 2 =>
                          call_terms[2] = [sign |-> sign, kind |-> "exchange", m |-> <<a[1], b[1], d[1], c[1]>>]

\* two p3 configurations two states apart whose alignment is odd, with an
\* exchange term
C16_Witness ==
    /\ pc = "summed"
    /\ Len(call_state1) = 3
    /\ Differing(call_state1, call_state2) = 2
    /\ Len(call_terms) = 2
    /\ call_terms[1].sign = -1
    /\ call_terms[2].kind = "exchange"

\* the two configurations of the direct call lie in one (M_L, M_S) sector
\* and are two states apart
SameSectorTwoApart ==
    /\ Len(call_state1) = Len(call_state2)
    /\ SumML(call_state1) = SumML(call_state2)
    /\ SumMS2(call_state1) = SumMS2(call_state2)
    /\ Differing(call_state1, call_state2) = 2
    /\ Differing(call_state2, call_state1) = 2

\* the assignments that pass the spin test and the reconstruction test
ValidAssignments(s1, s2) ==
    {q \in 1 .. 4 :
        LET asg == SearchOrder(s1, s2)[q]
        IN /\ SpinMatched(asg)
           /\ Range(Substituted(s1, asg[1], asg[2], asg[3], asg[4])) = Range(s2)}

\* the matrix-element value the assignment asg gives: sign * direct minus
\* sign * exchange, summed as get_hamiltonian sums the terms
AssignmentValue(s1, s2, asg, ll) == total_contrib(CaseBTerms(s1, s2, asg[1], asg[2], asg[3], asg[4]), ll)

\* C17: for two configurations of one sector two states apart, every
\* assignment that passes the spin test and the reconstruction test gives
\* the matrix-element value of the first one found.
C17_AssignmentIndependence ==
    (pc = "summed" /\ SameSectorTwoApart) =>
        \A q \in ValidAssignments(call_state1, call_state2) :
            AssignmentValue(call_state1, call_state2, SearchOrder(call_state1, call_state2)[q], orb_l) = call_entry

\* an f-shell pair with four valid assignments and a non-zero entry
C17_Witness ==
    /\ pc = "summed" /\ SameSectorTwoApart
    /\ orb_l = 3
    /\ Cardinality(ValidAssignments(call_state1, call_state2)) = 4
    /\ call_entry # Zero

\* C18: two distinct configurations of the list enumerated for one
\* (l, n, M_L, M_S) never differ in exactly one state: at least two states
\* of the first are absent from the second.
C18_NoSingleStateDifference ==
    Enumerated =>
        \A i \in 1 .. Len(configs) : \A j \in 1 .. Len(configs) :
            i # j => Differing(configs[i], configs[j]) >= 2

\* an f-shell sector of three electrons with pairs two and three states apart
C18_Witness ==
    /\ Enumerated /\ orb_l = 3 /\ n_electrons = 3 /\ Len(configs) >= 2
    /\ \E i \in 1 .. Len(configs) : \E j \in 1 .. Len(configs) : Differing(configs[i], configs[j]) = 2
    /\ \E i \in 1 .. Len(configs) : \E j \in 1 .. Len(configs) : Differing(configs[i], configs[j]) = 3

\* C19: for two configurations of one sector two states apart the term
\* list is not empty: some assignment is spin-matched, the index lookups
\* find both removed states, and the reconstruction test rejects no
\* spin-matched assignment.
C19_SameSectorPairHasTerms ==
    (Selected /\ SameSectorTwoApart) =>
        LET order == SearchOrder(call_state1, call_state2)
            matched == {q \in 1 .. 4 : SpinMatched(order[q])}
        IN /\ call_terms # << >>
           /\ matched # {}
           /\ \A q \in 1 .. 4 : Index(call_state1, order[q][1]) # 0 /\ Index(call_state1, order[q][2]) # 0
           /\ matched = ValidAssignments(call_state1, call_state2)
           /\ \A q \in matched : Matches(call_state1, call_state2, order[q][1], order[q][2], order[q][3], order[q][4])

\* a d-shell pair of opposite spins whose substituted configuration is
\* configuration 2 in another order
C19_Witness ==
    /\ Selected /\ SameSectorTwoApart
    /\ orb_l = 2 /\ Len(call_state1) = 3
    /\ Len(call_terms) = 1
    /\ Substituted(call_state1, SearchOrder(call_state1, call_state2)[1][1], SearchOrder(call_state1, call_state2)[1][2],
                   SearchOrder(call_state1, call_state2)[1][3], SearchOrder(call_state1, call_state2)[1][4]) # call_state2

\* the two configurations of the direct call lie in one (M_L, M_S) sector
SameSector ==
    /\ Len(call_state1) = Len(call_state2)
    /\ SumML(call_state1) = SumML(call_state2)
    /\ SumMS2(call_state1) = SumMS2(call_state2)

\* C20 as stated: every term emitted for two configurations of one sector
\* has m1 + m2 = m3 + m4, so the multipole projections m2 - m4 and m3 - m1
\* of the two Gaunt factors of coulomb_contribution(m2, m1, m3, m4, l) are
\* opposite.
C20_TermsConserveProjectionOpposite ==
    (Selected /\ SameSector) =>
        \A k \in 1 .. Len(call_terms) :
            /\ call_terms[k].m[1] + call_terms[k].m[2] = call_terms[k].m[3] + call_terms[k].m[4]
            /\ call_terms[k].m[2] - call_terms[k].m[4] = -(call_terms[k].m[3] - call_terms[k].m[1])

\* the multipole projection of T1 and of T2 in coulomb_contribution(p1, p2, p3, p4, l):
\* the middle projection of gaunt(l, k, l, -p1, p1 - p4, p4) and of
\* gaunt(l, k, l, -p3, p3 - p2, p2)
ProjectionT1(p1, p2, p3, p4) == p1 - p4

ProjectionT2(p1, p2, p3, p4) == p3 - p2

\* C20 as amended: every term emitted for two configurations of one sector
\* has m1 + m2 = m3 + m4, so the two Gaunt factors of
\* coulomb_contribution(m2, m1, m3, m4, l) carry equal multipole
\* projections, m2 - m4 = m3 - m1.
C20_TermsConserveProjectionEqual ==
    (Selected /\ SameSector) =>
        \A k \in 1 .. Len(call_terms) :
            LET m == call_terms[k].m
            IN /\ m[1] + m[2] = m[3] + m[4]
               /\ ProjectionT1(m[2], m[1], m[3], m[4]) = m[2] - m[4]
               /\ ProjectionT2(m[2], m[1], m[3], m[4]) = m[3] - m[1]
               /\ ProjectionT1(m[2], m[1], m[3], m[4]) = ProjectionT2(m[2], m[1], m[3], m[4])

\* an f-shell pair two states apart with a direct and an exchange term
\* whose Gaunt factors have a non-zero projection
C20_Witness ==
    /\ pc = "summed" /\ SameSectorTwoApart
    /\ orb_l = 3
    /\ Len(call_terms) = 2
    /\ call_terms[1].m[2] # call_terms[1].m[4]
    /\ call_terms[2].m[2] # call_terms[2].m[4]

====
